---- MODULE Spec2Model ----
(***************************************************************************)
(* searxngr: the query / pagination / session loop of main() and the       *)
(* backend client it calls (src/searxngr/searxngr.py).                     *)
(*                                                                         *)
(* The state is main()'s local state (query, pageno, start_at, results,    *)
(* the argparse namespace args) plus the position of the single thread:    *)
(*   "fetch"  - at the head of the inner fetch loop (line 1070)            *)
(*   "prompt" - blocked in Prompt.ask (line 1142)                          *)
(*   "exited" - the process has terminated                                 *)
(* A result record is a Python dict; `id` stands for the object's          *)
(* identity, the other fields for its contents.  args.num is a result      *)
(* count and is taken from the naturals.                                   *)
(*                                                                         *)
(* DEBUG is the module global of line 25, main_DEBUG the local variable of *)
(* the same name that main() assigns (lines 913 and 1308), dbgout the      *)
(* debug lines the last step printed, req the last request search() built, *)
(* resp the last response search() decoded and what it made of it, conf    *)
(* the last get_config_bool call, budget the number of backend calls the   *)
(* run is followed for.                                                    *)
(*                                                                         *)
(* search() and print_results() are also exercised on their own, from      *)
(* inputs: pc = "call" is a caller about to invoke search(), pc = "sent"    *)
(* a search() whose request is out, pc = "render" and pc = "trailer"       *)
(* callers of print_results(), pc = "config" a caller of get_config_bool.  *)
(***************************************************************************)
EXTENDS Integers, Sequences, FiniteSets, TLC

VARIABLES args, query, pageno, start_at, results, pc, exit_code,
          nextId, nfetch, sent, exhausted, phase, mark, ev,
          DEBUG, main_DEBUG, dbgout, req, resp, conf, budget

vars == <<args, query, pageno, start_at, results, pc, exit_code,
          nextId, nfetch, sent, exhausted, phase, mark, ev,
          DEBUG, main_DEBUG, dbgout, req, resp, conf, budget>>

-----------------------------------------------------------------------------
(* Bounds of the model *)

\* largest --num value explored
MaxNum == 5
\* largest number of records the backend returns in one page
MaxPageLen == 4
\* backend calls explored in one run of the program
MaxFetches == 2
\* largest index typed in a bare-number, c or j command
MaxIndex == 1
\* largest pageno handed to search() when it is called on its own
MaxPage == 2
\* longest list handed to print_results() when it is called on its own,
\* longest `engines` list of a record in it, and longest `results` array of
\* an envelope decoded on its own
MaxRecords == 2
\* longest `unresponsive_engines` list of an envelope
MaxUnresponsive == 3
\* the longest float length explored, in half seconds (125.0 s)
MaxHalfSeconds == 250

\* line 32: the default of --num
RESULT_COUNT == 10

Min(a, b) == IF a < b THEN a ELSE b

\* the values of args.num explored
Nums == (0..MaxNum) \cup {RESULT_COUNT}
\* --num in the runs that change the filters
FilterNum == 2

-----------------------------------------------------------------------------
(* Input alphabets *)

Queries == {"cats", "dogs"}
Sites == {"example.com"}

Str_day == <<"d", "a", "y">>
Str_week == <<"w", "e", "e", "k">>
Str_month == <<"m", "o", "n", "t", "h">>
Str_year == <<"y", "e", "a", "r">>

\* line 63
TIME_RANGE_OPTIONS == {Str_day, Str_week, Str_month, Str_year}
\* line 64
TIME_RANGE_SHORT_OPTIONS == {<<"d">>, <<"w">>, <<"m">>, <<"y">>}

\* the tokens typed after "t " in the runs explored: a short form, a long
\* form and one that is neither
TimeTokens == {<<"w">>, Str_week, <<"x", "x">>}

\* an unset option (None or the empty string: both are falsy)
Unset == <<>>

\* str.replace(c, w) for a one-character pattern c
RECURSIVE Replace(_, _, _)
Replace(s, c, w) ==
  IF s = <<>> THEN <<>>
  ELSE (IF Head(s) = c THEN w ELSE <<Head(s)>>) \o Replace(Tail(s), c, w)

\* lines 1251-1256 (and 944-949): the chain of replace calls
ShortToLong_DayFirst(t) ==
  Replace(Replace(Replace(Replace(t, "d", Str_day), "w", Str_week),
                  "m", Str_month), "y", Str_year)
ShortToLong(t) ==
  Replace(Replace(Replace(Replace(t, "y", Str_year), "m", Str_month),
                  "w", Str_week), "d", Str_day)

-----------------------------------------------------------------------------
(* search(): the request, lines 420-473 *)

\* lines 45-49
SAFE_SEARCH_OPTIONS == [none |-> "0", moderate |-> "1", strict |-> "2"]

\* the text of a string kept as a sequence of characters
RECURSIVE Text(_)
Text(s) == IF s = <<>> THEN "" ELSE Head(s) \o Text(Tail(s))

\* sep.join(s)
RECURSIVE Join(_, _)
Join(sep, s) ==
  IF s = <<>> THEN ""
  ELSE IF Len(s) = 1 THEN s[1]
  ELSE s[1] \o sep \o Join(sep, Tail(s))

\* line 420: query = f"site:{site} {query}" if site else query
SiteQuery(q, site) == IF site # "" THEN "site:" \o site \o " " \o q ELSE q

\* lines 434-439: the entries "social+media" of the caller's list are
\* overwritten in place
SocialMedia(cats) ==
  [i \in 1..Len(cats) |->
     IF cats[i] = "social+media" THEN "social media" ELSE cats[i]]

SendEngines_Always(engines, categories) == engines # <<>>
\* lines 441 and 459-461: if engines and not categories
SendEngines(engines, categories) == engines # <<>> /\ categories = <<>>

\* lines 446 and 467: if pageno > 1
SendPageno(p) == p > 1

Param(k, v) == [key |-> k, value |-> v]
Opt(cond, k, v) == IF cond THEN <<Param(k, v)>> ELSE <<>>

\* lines 428-451: the form body, in the order the keys are inserted
PostBody(a) ==
  <<Param("q", SiteQuery(a.query, a.site)), Param("format", "json")>>
  \o Opt(a.categories # <<>>, "categories",
         Join(",", SocialMedia(a.categories)))
  \o Opt(SendEngines(a.engines, a.categories), "engines",
         Join(",", a.engines))
  \o Opt(a.language # "", "language", a.language)
  \o Opt(SendPageno(a.pageno), "pageno", ToString(a.pageno))
  \o Opt(a.safe_search # "", "safesearch", SAFE_SEARCH_OPTIONS[a.safe_search])
  \o Opt(a.time_range # <<>>, "time_range", Text(a.time_range))

\* lines 457-467: the pieces "k=v" appended to the path, in order
GetParams(a) ==
  <<Param("q", SiteQuery(a.query, a.site)), Param("format", "json")>>
  \o Opt(a.categories # <<>>, "categories", Join(",", a.categories))
  \o Opt(SendEngines(a.engines, a.categories), "engines",
         Join(",", a.engines))
  \o Opt(a.language # "", "language", a.language)
  \o Opt(a.safe_search # "", "safesearch", SAFE_SEARCH_OPTIONS[a.safe_search])
  \o Opt(a.time_range # <<>>, "time_range", Text(a.time_range))
  \o Opt(SendPageno(a.pageno), "pageno", ToString(a.pageno))

\* the path of a GET: "/search?" and the pieces joined by "&".  The
\* alphabets below hold printable characters only, which line 473 keeps.
GetPath(ps) ==
  "/search?" \o Join("&", [i \in 1..Len(ps) |-> ps[i].key \o "=" \o ps[i].value])

\* what search() hands to get() or post(); `categories` is the caller's
\* list as the call leaves it, `warned` the message of lines 424-425
SearchRequest(a) ==
  IF a.http_method = "POST"
  THEN [method |-> "POST", path |-> "/search", params |-> PostBody(a),
        categories |-> IF a.categories # <<>> THEN SocialMedia(a.categories)
                       ELSE a.categories,
        warned |-> (a.engines # <<>> /\ a.categories # <<>>)]
  ELSE [method |-> "GET", path |-> GetPath(GetParams(a)),
        params |-> GetParams(a), categories |-> a.categories,
        warned |-> (a.engines # <<>> /\ a.categories # <<>>)]

NoRequest ==
  [method |-> "", path |-> "", params |-> <<>>, categories |-> <<>>,
   warned |-> FALSE]

\* lines 453, 468, 504-508: the debug lines of one search() call
SearchDebug(flag, returned) ==
  IF ~flag THEN <<>>
  ELSE IF returned THEN <<"Searching", "Returned">> ELSE <<"Searching">>

\* lines 1071-1081: the arguments main() passes to search()
SearchArgs(ar, q, p) ==
  [http_method |-> ar.http_method, query |-> q, site |-> ar.site,
   categories |-> ar.categories, engines |-> ar.engines,
   language |-> ar.language, safe_search |-> ar.safe_search,
   time_range |-> ar.time_range, pageno |-> p]

-----------------------------------------------------------------------------
(* search(): the response, lines 486-510 *)

\* a decoded envelope is a dict: a function on the keys it holds
Envelope(hasResults, recs, hasUnresponsive, pairs) ==
  (IF hasResults THEN "results" :> recs ELSE <<>>)
  @@ (IF hasUnresponsive THEN "unresponsive_engines" :> pairs ELSE <<>>)

\* the truth value of a dict
Truthy(data) == DOMAIN data # {}

Range(s) == {s[i] : i \in 1..Len(s)}
Occurrences(s, e) == Cardinality({i \in 1..Len(s) : s[i] = e})

WarningLines_PerEntry(pairs) == [p \in Range(pairs) |-> Occurrences(pairs, p)]
\* lines 493-499: one print for each element of the set of tuples; the value
\* is the number of lines printed for the pair
WarningLines(pairs) == [p \in Range(pairs) |-> 1]

\* lines 488-499
UnresponsiveWarnings(data) ==
  IF /\ Truthy(data)
     /\ "unresponsive_engines" \in DOMAIN data
     /\ Len(data["unresponsive_engines"]) > 0
  THEN WarningLines(data["unresponsive_engines"])
  ELSE <<>>

\* a Python value that is None or a list
None == [is_none |-> TRUE, value |-> <<>>]
List(s) == [is_none |-> FALSE, value |-> s]

SearchReturn_NoneIfAbsent(data) == IF Truthy(data) /\ "results" \in DOMAIN data THEN List(data["results"]) ELSE None
\* lines 501-510
SearchReturn(data) == IF Truthy(data) /\ "results" \in DOMAIN data THEN List(data["results"]) ELSE List(<<>>)

\* what search() makes of a decoded envelope
Respond(data) ==
  [data |-> data, ret |-> SearchReturn(data),
   warnings |-> UnresponsiveWarnings(data)]

NoResponse == [data |-> <<>>, ret |-> None, warnings |-> <<>>]

-----------------------------------------------------------------------------
(* SearxngrConfig.get_config_bool, lines 633-648 *)

\* the texts ConfigParser.getboolean reads as True and as False, compared
\* in lower case; any other text makes it raise ValueError
TrueTexts == {"1", "yes", "true", "on"}
FalseTexts == {"0", "no", "false", "off"}

\* str.lower() on the texts explored
Lower(t) ==
  IF t = "True" THEN "true" ELSE IF t = "FALSE" THEN "false"
  ELSE IF t = "Maybe" THEN "maybe" ELSE t

\* line 640: parser["searxngr"].getboolean(key); `raised` stands for the
\* ValueError
GetBoolean(t) ==
  [raised |-> Lower(t) \notin TrueTexts \cup FalseTexts,
   value |-> Lower(t) \in TrueTexts]

\* lines 638-648
get_config_bool(present, text, default) ==
  IF present /\ GetBoolean(text).raised
  THEN \* except ValueError: return default
       default
  ELSE LET result == IF present THEN GetBoolean(text).value ELSE default
       IN \* line 643: return result if result else default
          IF result THEN result ELSE default

NoConfig ==
  [key |-> "", present |-> FALSE, text |-> "", default |-> FALSE,
   done |-> FALSE, result |-> FALSE]

-----------------------------------------------------------------------------
(* The backend: what one /search call can come back with *)

\* the record contents the backend serves
PayloadA == [url |-> "http://a", engine |-> "e1", engines |-> <<"e1", "e2">>]
PayloadB == [url |-> "", engine |-> "e2", engines |-> <<"e1">>]
PayloadSeq == <<PayloadA, PayloadB>>

\* page p of the backend, when it holds n records
BackendPage(p, n) == [i \in 1..n |-> PayloadSeq[((p + i) % 2) + 1]]

\* the dicts json() builds for a page: fresh objects, first one gets id `first`
Decode(page, first) ==
  [i \in 1..Len(page) |->
     [id |-> first + i - 1, url |-> page[i].url, engine |-> page[i].engine,
      engines |-> page[i].engines]]

\* the failures get/post/search turn into exit(1)
FailureKinds == {"HTTPStatusError", "ConnectError", "TimeoutException",
                 "JSONDecodeError"}

ExitStatusOnFailure_Zero(kind) == 0
\* lines 307-320, 338-351, 512-517: every handler ends in exit(1)
ExitStatusOnFailure(kind) == 1

-----------------------------------------------------------------------------
(* The conditions and updates of the main loop *)

NeedMore_Strict(res, start, num) == Len(res) < start + num
\* line 1070: while len(results) <= (start_at + args.num)
NeedMore(res, start, num) == Len(res) <= start + num

BreakAfter_NumOnly(num, page) == num = 0
\* line 1084: if args.num == 0 or len(query_results) == 0: break
BreakAfter(num, page) == num = 0 \/ Len(page) = 0

Extend_Front(res, page) == page \o res
\* line 1082: results.extend(query_results)
Extend(res, page) == res \o page

\* line 1086: pageno += 1 at the end of a loop iteration
NextPageno(p) == p + 1

\* line 1218: pageno += 1 in the `n` command
NextCmdPageno(p) == p + 1

Covered_Strict(res, start, num) == Len(res) > start + num
Covered_NoCount(res, start, num) == Len(res) >= start
\* line 1210: if len(results) >= (start_at + args.num)
Covered(res, start, num) == Len(res) >= start + num

PrevStart_Strict(start, num) == start - (IF start > num THEN num ELSE 0)
\* line 1223: start_at -= args.num if start_at >= args.num else 0
PrevStart(start, num) == start - (IF start >= num THEN num ELSE 0)

ResetState_KeepPage(p) == [start_at |-> 0, pageno |-> p, results |-> <<>>]
\* lines 1260-1262, 1270-1272, 1324-1326: start_at = 0; pageno = 1; results = []
ResetState(p) == [start_at |-> 0, pageno |-> 1, results |-> <<>>]

-----------------------------------------------------------------------------
(* print_results *)

\* list.remove(e): drops the first occurrence
RemoveFirst(s, e) ==
  IF \E i \in 1..Len(s) : s[i] = e
  THEN LET i == CHOOSE k \in 1..Len(s) :
                  s[k] = e /\ \A j \in 1..(k - 1) : s[j] # e
       IN SubSeq(s, 1, i - 1) \o SubSeq(s, i + 1, Len(s))
  ELSE s

\* lines 93-95: results[start_at:(start_at + count)], as 1-based positions
WindowLo(start) == start + 1
WindowHi(res, count, start) == Min(start + count, Len(res))

\* lines 236-237: engines.remove(engine) if engine in engines - on the dict
\* that the buffer holds
RenderedRecord(r) == [r EXCEPT !.engines = RemoveFirst(r.engines, r.engine)]

\* what the call leaves in the buffer
PrintResultsBuffer(res, count, start) ==
  [k \in 1..Len(res) |->
     IF k >= WindowLo(start) /\ k <= WindowHi(res, count, start)
     THEN RenderedRecord(res[k]) ELSE res[k]]

\* what the call prints: one entry per record of the window
PrintResultsOutput(res, count, start, expand) ==
  LET lo == WindowLo(start)
      hi == WindowHi(res, count, start)
  IN [j \in 1..(IF hi >= lo THEN hi - lo + 1 ELSE 0) |->
        LET r == res[lo + j - 1]
        IN [i |-> lo + j - 1, id |-> r.id,
            url |-> IF expand THEN r.url ELSE "",
            engine |-> r.engine,
            engines |-> RemoveFirst(r.engines, r.engine)]]

-----------------------------------------------------------------------------
(* print_results, lines 161-183: the trailer line of a videos or music record *)

\* a record's `length` as the backend can send it: absent, a float of
\* seconds (counted here in half seconds, h = 2 * length), an int of
\* seconds, or a text such as "3:25"
NoLength == [kind |-> "none", h |-> 0, s |-> ""]
FloatLength(h) == [kind |-> "float", h |-> h, s |-> ""]
IntLength(n) == [kind |-> "int", h |-> n, s |-> ""]
StrLength(s) == [kind |-> "str", h |-> 0, s |-> s]

\* the format spec :02 applied to an int n >= 0
Pad2(n) == IF n < 10 THEN "0" \o ToString(n) ELSE ToString(n)

\* lines 165-167 and 177-179:
\*   if isinstance(length, float):
\*       length = f"{int(length // 60):02}:{int(length % 6):02}"
FormatLength(length) ==
  IF length.kind = "float"
  THEN StrLength(Pad2(length.h \div 120) \o ":" \o Pad2((length.h % 12) \div 2))
  ELSE length

\* bool(length)
LengthTruthy(length) ==
  \/ length.kind = "str" /\ length.s # ""
  \/ length.kind \in {"int", "float"} /\ length.h # 0

\* f"{length if length else ''}", reached with a float already formatted
LengthText(length) ==
  IF ~LengthTruthy(length) THEN ""
  ELSE IF length.kind = "str" THEN length.s ELSE ToString(length.h)

\* lines 168-171 and 180-183, the markup left out
AuthorLengthLines(r) ==
  LET length == FormatLength(r.length)
  IN IF r.author # "" \/ LengthTruthy(length)
     THEN <<LengthText(length) \o " " \o r.author>>
     ELSE <<>>

\* lines 161-183 for one record: the lines printed after its content
TrailerLines(r) ==
  (IF r.category = "videos" THEN AuthorLengthLines(r) ELSE <<>>)
  \o (IF r.category = "music" /\ r.publishedDate # ""
      THEN AuthorLengthLines(r) ELSE <<>>)

-----------------------------------------------------------------------------
(* The last step taken, as an observer sees it *)

Ev(op, page, got, rendered, shown, note) ==
  [op |-> op, page |-> page, got |-> got, rendered |-> rendered,
   shown |-> shown, note |-> note]

NoPhase == [id |-> 1, n |-> 0, last |-> -1]

-----------------------------------------------------------------------------
(* Init: the state at line 1067, after argument handling *)

\* the exit-early switches of the command line, one at a time
Switches == {"none", "json", "first", "lucky", "np"}

\* the namespace after lines 905-1061, for a run with the request options
\* left at their defaults
Args(n, sw, x) ==
  [num |-> IF sw = "first" THEN 1 ELSE n,
   json |-> (sw = "json"), first |-> (sw = "first"),
   lucky |-> (sw = "lucky"), np |-> (sw = "np"),
   expand |-> x, time_range |-> Unset, site |-> "",
   http_method |-> "GET", categories |-> <<>>, engines |-> <<>>,
   language |-> "", safe_search |-> "strict"]

\* line 25, and the observer's variables before the first step
Fresh ==
  /\ DEBUG = FALSE
  /\ resp = NoResponse
  /\ conf = NoConfig
  /\ dbgout = <<>>
  /\ req = NoRequest
  /\ exit_code = -1
  /\ nextId = 1
  /\ nfetch = 0
  /\ sent = <<>>
  /\ exhausted = FALSE
  /\ phase = NoPhase
  /\ mark = 1
  /\ ev = Ev("start", 0, -1, FALSE, <<>>, "")

\* lines 905 and 1063-1065
Start ==
  /\ Fresh
  /\ query = "cats"
  /\ pageno = 1
  /\ start_at = 0
  /\ results = <<>>
  /\ pc = "fetch"
  /\ budget = MaxFetches

\* runs started without --debug (line 913: DEBUG = args.debug)
Init ==
  /\ \E n \in Nums, sw \in Switches, x \in BOOLEAN : args = Args(n, sw, x)
  /\ main_DEBUG = FALSE
  /\ Start

\* the values of --num in the runs that use every command of the prompt
SessionNums == {0, 2}

\* interactive runs, with or without --debug (line 913: DEBUG = args.debug)
InitSession ==
  /\ \E n \in SessionNums : args = Args(n, "none", FALSE)
  /\ main_DEBUG \in BOOLEAN
  /\ Start

-----------------------------------------------------------------------------
(* Lines 1088-1134: what follows the fetch loop *)

JsonOutput_Window(res) ==
  SubSeq(res, WindowLo(start_at), WindowHi(res, args.num, start_at))
\* line 1089: print(json.dumps(results, indent=2))
JsonOutput(res) == res

AfterLoop(res, op, page, got) ==
  IF args.json
  THEN \* lines 1088-1090
       /\ results' = res
       /\ pc' = "exited" /\ exit_code' = 0
       /\ ev' = Ev(op, page, got, FALSE, JsonOutput(res), "json")
  ELSE IF res # <<>> /\ args.first
  THEN \* lines 1093-1105
       /\ results' = res
       /\ pc' = "exited" /\ exit_code' = 0
       /\ ev' = Ev(op, page, got, FALSE, <<res[1].id>>,
                   IF res[1].url # "" THEN "open" ELSE "nourl")
  ELSE IF res # <<>> /\ args.lucky
  THEN \* lines 1107-1120
       /\ results' = res
       /\ pc' = "exited" /\ exit_code' = 0
       /\ \E k \in 1..Len(res) :
            ev' = Ev(op, page, got, FALSE, <<res[k].id>>,
                     IF res[k].url # "" THEN "open" ELSE "nourl")
  ELSE /\ IF res # <<>>
          THEN \* lines 1122-1125
               /\ results' = PrintResultsBuffer(res, args.num, start_at)
               /\ ev' = Ev(op, page, got, TRUE,
                           PrintResultsOutput(res, args.num, start_at,
                                              args.expand), "")
          ELSE \* lines 1126-1130
               /\ results' = res
               /\ ev' = Ev(op, page, got, FALSE, <<>>, "noresults")
       /\ IF args.np
          THEN pc' = "exited" /\ exit_code' = 0
          ELSE pc' = "prompt" /\ exit_code' = exit_code

-----------------------------------------------------------------------------
(* Lines 1070-1086: one iteration of the fetch loop *)

\* searxng.search returns a page of n records
SearchOk(n) ==
  /\ pc = "fetch"
  /\ NeedMore(results, start_at, args.num)
  /\ nfetch < budget
  /\ req' = SearchRequest(SearchArgs(args, query, pageno))
  /\ args' = [args EXCEPT !.categories = req'.categories]
  /\ dbgout' = SearchDebug(DEBUG, TRUE)
  /\ resp' = Respond(Envelope(TRUE, Decode(BackendPage(pageno, n), nextId),
                              FALSE, <<>>))
  /\ LET page == resp'.ret.value
         res == Extend(results, page)
     IN /\ nextId' = nextId + n
        /\ nfetch' = nfetch + 1
        /\ sent' = Append(sent, [pageno |-> pageno, got |-> n])
        /\ exhausted' = (exhausted \/ n = 0)
        /\ phase' = [phase EXCEPT !.n = @ + 1, !.last = n]
        /\ IF BreakAfter(args.num, page)
           THEN /\ pageno' = pageno
                /\ AfterLoop(res, "search", pageno, n)
           ELSE /\ pageno' = NextPageno(pageno)
                /\ results' = res
                /\ pc' = "fetch"
                /\ exit_code' = exit_code
                /\ ev' = Ev("search", pageno, n, FALSE, <<>>, "")
  /\ UNCHANGED <<query, start_at, mark, DEBUG, main_DEBUG, conf, budget>>

\* searxng.search does not return: get/post/search call exit(1)
SearchFail(kind) ==
  /\ pc = "fetch"
  /\ NeedMore(results, start_at, args.num)
  /\ nfetch < budget
  /\ req' = SearchRequest(SearchArgs(args, query, pageno))
  /\ args' = [args EXCEPT !.categories = req'.categories]
  /\ dbgout' = SearchDebug(DEBUG, FALSE)
  /\ nfetch' = nfetch + 1
  /\ sent' = Append(sent, [pageno |-> pageno, got |-> -1])
  /\ pc' = "exited"
  /\ exit_code' = ExitStatusOnFailure(kind)
  /\ ev' = Ev("search", pageno, -1, FALSE, <<>>, kind)
  /\ UNCHANGED <<query, pageno, start_at, results, nextId, exhausted,
                 phase, mark, DEBUG, main_DEBUG, resp, conf, budget>>

\* the loop condition is false: fall through to line 1088
LoopDone ==
  /\ pc = "fetch"
  /\ ~NeedMore(results, start_at, args.num)
  /\ AfterLoop(results, "show", 0, -1)
  /\ dbgout' = <<>>
  /\ UNCHANGED <<args, query, pageno, start_at, nextId, nfetch, sent,
                 exhausted, phase, mark, DEBUG, main_DEBUG, req, resp, conf,
                 budget>>

-----------------------------------------------------------------------------
(* Lines 1140-1327: one line of input at the prompt *)

\* what a command that neither fetches nor touches the debug flag leaves
\* alone
NoFetch ==
  /\ dbgout' = <<>>
  /\ UNCHANGED <<nextId, nfetch, sent, exhausted, mark, DEBUG, main_DEBUG, req,
                 resp, conf, budget>>

\* q / quit / exit, line 1152
CmdQuit ==
  /\ pc = "prompt"
  /\ pc' = "exited" /\ exit_code' = 0
  /\ ev' = Ev("q", 0, -1, FALSE, <<>>, "")
  /\ UNCHANGED <<args, query, pageno, start_at, results, phase>>
  /\ NoFetch

\* Ctrl-C at the prompt, lines 1144-1146
CmdInterrupt ==
  /\ pc = "prompt"
  /\ pc' = "exited" /\ exit_code' = 1
  /\ ev' = Ev("interrupt", 0, -1, FALSE, <<>>, "")
  /\ UNCHANGED <<args, query, pageno, start_at, results, phase>>
  /\ NoFetch

\* Ctrl-D at the prompt, lines 1147-1149
CmdEOF ==
  /\ pc = "prompt"
  /\ pc' = "exited" /\ exit_code' = 0
  /\ ev' = Ev("eof", 0, -1, FALSE, <<>>, "")
  /\ UNCHANGED <<args, query, pageno, start_at, results, phase>>
  /\ NoFetch

\* ?, lines 1154-1173
CmdHelp ==
  /\ pc = "prompt"
  /\ ev' = Ev("?", 0, -1, FALSE, <<>>, "help")
  /\ UNCHANGED <<args, query, pageno, start_at, results, pc, exit_code, phase>>
  /\ NoFetch

\* how subprocess.run(..., check=True) of line 1181 can end: the handler
\* exits with status 0, exits with another status, or cannot be started
OpenerOutcomes == {"ok", "CalledProcessError", "FileNotFoundError"}
\* lines 1180-1186: the only except clause
OpenerCaught == {"CalledProcessError"}

\* how pyperclip.copy of line 1198 can end: it returns, or it raises because
\* no clipboard mechanism is available
ClipboardOutcomes == {"ok", "PyperclipException"}
\* lines 1196-1198: the call is in no try statement
ClipboardCaught == {}

\* an exception no handler catches ends the interpreter with status 1
UncaughtExitStatus == 1

\* a number in 1..len(results), lines 1174-1191
CmdOpen(i, out) ==
  /\ pc = "prompt"
  /\ i \in 1..Len(results)
  /\ results[i].url = "" => out = "ok"
  /\ ev' = Ev("open", 0, -1, FALSE, <<results[i].id>>,
              IF results[i].url = "" THEN "nourl"
              ELSE IF out = "ok" THEN "open" ELSE out)
  /\ IF results[i].url # "" /\ out # "ok" /\ out \notin OpenerCaught
     THEN pc' = "exited" /\ exit_code' = UncaughtExitStatus
     ELSE UNCHANGED <<pc, exit_code>>
  /\ UNCHANGED <<args, query, pageno, start_at, results, phase>>
  /\ NoFetch

\* c <index>, lines 1192-1205
CmdCopy(i, out) ==
  /\ pc = "prompt"
  /\ (i \notin 1..Len(results) \/ results[i].url = "") => out = "ok"
  /\ ev' = IF i \in 1..Len(results)
           THEN Ev("c", 0, -1, FALSE, <<results[i].id>>,
                   IF results[i].url = "" THEN "nourl"
                   ELSE IF out = "ok" THEN "copy" ELSE out)
           ELSE Ev("c", 0, -1, FALSE, <<>>, "invalid")
  /\ IF out # "ok" /\ out \notin ClipboardCaught
     THEN pc' = "exited" /\ exit_code' = UncaughtExitStatus
     ELSE UNCHANGED <<pc, exit_code>>
  /\ UNCHANGED <<args, query, pageno, start_at, results, phase>>
  /\ NoFetch

\* j <index>, lines 1311-1319
CmdJson(i) ==
  /\ pc = "prompt"
  /\ ev' = IF i \in 1..Len(results)
           THEN Ev("j", 0, -1, FALSE, <<results[i]>>, "json")
           ELSE Ev("j", 0, -1, FALSE, <<>>, "")
  /\ UNCHANGED <<args, query, pageno, start_at, results, pc, exit_code, phase>>
  /\ NoFetch

\* n, lines 1207-1219
CmdNext ==
  /\ pc = "prompt"
  /\ start_at' = start_at + args.num
  /\ IF Covered(results, start_at', args.num)
     THEN /\ results' = PrintResultsBuffer(results, args.num, start_at')
          /\ ev' = Ev("n", 0, -1, TRUE,
                      PrintResultsOutput(results, args.num, start_at',
                                         args.expand), "")
          /\ UNCHANGED <<pageno, pc, phase>>
     ELSE /\ pageno' = NextCmdPageno(pageno)
          /\ pc' = "fetch"
          /\ phase' = [id |-> phase.id + 1, n |-> 0, last |-> -1]
          /\ ev' = Ev("n", 0, -1, FALSE, <<>>, "")
          /\ UNCHANGED results
  /\ UNCHANGED <<args, query, exit_code>>
  /\ NoFetch

\* p, lines 1221-1227
CmdPrev ==
  /\ pc = "prompt"
  /\ start_at' = PrevStart(start_at, args.num)
  /\ results' = PrintResultsBuffer(results, args.num, start_at')
  /\ ev' = Ev("p", 0, -1, TRUE,
              PrintResultsOutput(results, args.num, start_at', args.expand),
              "")
  /\ UNCHANGED <<args, query, pageno, pc, exit_code, phase>>
  /\ NoFetch

\* f, lines 1229-1235
CmdFirst ==
  /\ pc = "prompt"
  /\ start_at' = 0
  /\ results' = PrintResultsBuffer(results, args.num, start_at')
  /\ ev' = Ev("f", 0, -1, TRUE,
              PrintResultsOutput(results, args.num, start_at', args.expand),
              "")
  /\ UNCHANGED <<args, query, pageno, pc, exit_code, phase>>
  /\ NoFetch

ToggleExpand_On(x) == TRUE
\* line 1277: args.expand = not args.expand
ToggleExpand(x) == ~x

\* x, lines 1275-1281
CmdExpand ==
  /\ pc = "prompt"
  /\ args' = [args EXCEPT !.expand = ToggleExpand(args.expand)]
  /\ results' = PrintResultsBuffer(results, args.num, start_at)
  /\ ev' = Ev("x", 0, -1, TRUE,
              PrintResultsOutput(results, args.num, start_at, args'.expand),
              "")
  /\ UNCHANGED <<query, pageno, start_at, pc, exit_code, phase>>
  /\ NoFetch

\* the tail shared by the three commands that start a search over
Restart(op) ==
  /\ start_at' = ResetState(pageno).start_at
  /\ pageno' = ResetState(pageno).pageno
  /\ results' = ResetState(pageno).results
  /\ pc' = "fetch"
  /\ sent' = <<>>
  /\ exhausted' = FALSE
  /\ phase' = NoPhase
  /\ mark' = nextId
  /\ ev' = Ev(op, 0, -1, FALSE, <<>>, "")
  /\ dbgout' = <<>>
  /\ UNCHANGED <<exit_code, nextId, nfetch, DEBUG, main_DEBUG, req, resp, conf,
                 budget>>

\* t <range>, lines 1237-1263
CmdTimeRange(tok) ==
  /\ pc = "prompt"
  /\ IF tok \notin TIME_RANGE_OPTIONS /\ tok \notin TIME_RANGE_SHORT_OPTIONS
     THEN /\ ev' = Ev("t", 0, -1, FALSE, <<>>, "invalid")
          /\ UNCHANGED <<args, query, pageno, start_at, results, pc,
                         exit_code, phase>>
          /\ NoFetch
     ELSE /\ args' = [args EXCEPT !.time_range =
                        IF tok \in TIME_RANGE_SHORT_OPTIONS
                        THEN ShortToLong(tok) ELSE tok]
          /\ Restart("t")
          /\ UNCHANGED query

CmdSite_DropsTimeRange(s) ==
  /\ pc = "prompt"
  /\ args' = [args EXCEPT !.site = s, !.time_range = Unset]
  /\ Restart("site")
  /\ UNCHANGED query
\* site:<value>, lines 1265-1273
CmdSite(s) ==
  /\ pc = "prompt"
  /\ args' = [args EXCEPT !.site = s]
  /\ Restart("site")
  /\ UNCHANGED query

\* s, lines 1283-1303
CmdSettings ==
  /\ pc = "prompt"
  /\ ev' = Ev("s", 0, -1, FALSE, <<>>, "settings")
  /\ UNCHANGED <<args, query, pageno, start_at, results, pc, exit_code, phase>>
  /\ NoFetch

\* d, lines 1305-1309: DEBUG = not DEBUG, in a function that has no
\* `global DEBUG` (line 909 declares `global console` only)
CmdDebug ==
  /\ pc = "prompt"
  /\ main_DEBUG' = ~main_DEBUG
  /\ ev' = Ev("d", 0, -1, FALSE, <<>>,
              IF main_DEBUG' THEN "enabled" ELSE "disabled")
  /\ dbgout' = <<>>
  /\ UNCHANGED <<args, query, pageno, start_at, results, pc, exit_code, phase,
                 nextId, nfetch, sent, exhausted, mark, DEBUG, req, resp, conf,
                 budget>>

\* an empty line: no branch of lines 1152-1321 is taken
CmdEmpty ==
  /\ pc = "prompt"
  /\ ev' = Ev("empty", 0, -1, FALSE, <<>>, "")
  /\ UNCHANGED <<args, query, pageno, start_at, results, pc, exit_code, phase>>
  /\ NoFetch

\* any other non-empty line, lines 1321-1327
CmdQuery(q) ==
  /\ pc = "prompt"
  /\ query' = q
  /\ Restart("query")
  /\ UNCHANGED args

\* a number outside 1..len(results): the test of lines 1174-1176 fails, no
\* later branch matches, and line 1321 takes the digits as a query
CmdNumber(i) ==
  /\ pc = "prompt"
  /\ i \notin 1..Len(results)
  /\ query' = ToString(i)
  /\ Restart("query")
  /\ UNCHANGED args

-----------------------------------------------------------------------------
(* search() and print_results() called on their own *)

\* the [engine, error] pairs of the envelopes explored
UnresponsivePairs == {<<"e1", "timeout">>, <<"e2", "err">>}
UnresponsiveLists == UNION {[1..k -> UnresponsivePairs] : k \in 0..MaxUnresponsive}
ResultLists == UNION {[1..k -> {PayloadA, PayloadB}] : k \in 0..MaxRecords}

\* a search() whose request has been sent
InitResponse ==
  /\ args = Args(RESULT_COUNT, "none", FALSE)
  /\ main_DEBUG = FALSE
  /\ Fresh
  /\ query = "cats"
  /\ pageno = 1
  /\ start_at = 0
  /\ results = <<>>
  /\ pc = "sent"
  /\ budget = MaxFetches

\* response.json() gives an envelope: lines 486-510
SearchRespond(data) ==
  /\ pc = "sent"
  /\ resp' = Respond(data)
  /\ dbgout' = SearchDebug(DEBUG, "results" \in DOMAIN data)
  /\ pc' = "returned"
  /\ ev' = Ev("search", pageno, Len(resp'.ret.value), FALSE, <<>>, "response")
  /\ UNCHANGED <<args, query, pageno, start_at, results, exit_code, nextId,
                 nfetch, sent, exhausted, phase, mark, DEBUG, main_DEBUG, req,
                 conf, budget>>

Methods == {"GET", "POST"}
CategoryLists == {<<>>, <<"general">>, <<"general", "social+media">>}
\* --engines takes any strings (nargs="*", line 736) and nothing validates
\* them: `-e ""` gives the last list
EngineLists == {<<>>, <<"e1">>, <<"e1", "e2">>, <<"">>}
Languages == {"", "en"}
SafeSearches == {"", "none", "moderate", "strict"}
TimeRanges == {Unset, Str_week}

\* a caller about to invoke search(); an unset field is None, "" or an
\* empty list
InitRequest ==
  /\ \E m \in Methods, c \in CategoryLists, e \in EngineLists,
        l \in Languages, ss \in SafeSearches, t \in TimeRanges,
        st \in Sites \cup {""} :
       args = [Args(RESULT_COUNT, "none", FALSE) EXCEPT
                 !.http_method = m, !.categories = c, !.engines = e,
                 !.language = l, !.safe_search = ss, !.time_range = t,
                 !.site = st]
  /\ main_DEBUG = FALSE
  /\ Fresh
  /\ query = "cats"
  /\ pageno \in 0..MaxPage
  /\ start_at = 0
  /\ results = <<>>
  /\ pc = "call"
  /\ budget = MaxFetches

EngineNames == {"e1", "e2"}
\* the `engines` lists of the records rendered, repeated names included
EngineSeqs == UNION {[1..k -> EngineNames] : k \in 0..MaxRecords}
RenderPayloads == [url : {"http://a"}, engine : EngineNames, engines : EngineSeqs]

\* a caller about to invoke print_results() on a list of records
InitRender ==
  /\ \E x \in BOOLEAN : args = Args(MaxRecords, "none", x)
  /\ main_DEBUG = FALSE
  /\ Fresh
  /\ query = "cats"
  /\ pageno = 1
  /\ start_at = 0
  /\ \E k \in 1..MaxRecords :
       \E page \in [1..k -> RenderPayloads] : results = Decode(page, 1)
  /\ pc = "render"
  /\ budget = MaxFetches

\* the caller invokes search(): lines 420-473
SearchCall ==
  /\ pc = "call"
  /\ req' = SearchRequest(SearchArgs(args, query, pageno))
  /\ args' = [args EXCEPT !.categories = req'.categories]
  /\ dbgout' = SearchDebug(DEBUG, FALSE)
  /\ pc' = "called"
  /\ ev' = Ev("search", pageno, -1, FALSE, <<>>, "request")
  /\ UNCHANGED <<query, pageno, start_at, results, exit_code, nextId, nfetch,
                 sent, exhausted, phase, mark, DEBUG, main_DEBUG, resp, conf,
                 budget>>

\* the caller invokes print_results(results, args.num, start_at, args.expand)
PrintResults ==
  /\ pc = "render"
  /\ results' = PrintResultsBuffer(results, args.num, start_at)
  /\ ev' = Ev("print_results", 0, -1, TRUE,
              PrintResultsOutput(results, args.num, start_at, args.expand),
              "")
  /\ UNCHANGED <<args, query, pageno, start_at, pc, exit_code, phase>>
  /\ NoFetch

-----------------------------------------------------------------------------

\* the paging runs: the fetch loop and the commands that navigate, reset
\* or pick a record
Next ==
  \/ \E n \in 0..MaxPageLen : SearchOk(n)
  \/ \E kind \in FailureKinds : SearchFail(kind)
  \/ LoopDone
  \/ CmdQuit
  \/ \E i \in 1..MaxIndex, out \in OpenerOutcomes : CmdOpen(i, out)
  \/ \E i \in 1..MaxIndex, out \in ClipboardOutcomes : CmdCopy(i, out)
  \/ \E i \in 1..MaxIndex : CmdJson(i)
  \/ CmdNext
  \/ CmdPrev
  \/ CmdFirst
  \/ CmdExpand
  \/ \E tok \in TimeTokens : CmdTimeRange(tok)
  \/ \E s \in Sites : CmdSite(s)
  \/ \E q \in Queries : CmdQuery(q)

Spec == Init /\ [][Next]_vars

\* every line the prompt accepts
NextSession ==
  \/ Next
  \/ CmdInterrupt
  \/ CmdEOF
  \/ CmdHelp
  \/ CmdSettings
  \/ CmdDebug
  \/ CmdEmpty
  \/ \E i \in 1..MaxIndex : CmdNumber(i)

SpecSession == InitSession /\ [][NextSession]_vars

\* what --time-range can hold at line 934: nothing, a short form, a long
\* form, or a text that is neither
CliTimeRanges ==
  {Unset, <<"x", "x">>} \cup TIME_RANGE_SHORT_OPTIONS \cup TIME_RANGE_OPTIONS
\* what can follow "t " at the prompt
FilterTokens ==
  {<<"x", "x">>} \cup TIME_RANGE_SHORT_OPTIONS \cup TIME_RANGE_OPTIONS

\* main() at line 934, the arguments parsed, for runs that set the filters
InitFilters ==
  /\ \E m \in Methods, c \in {<<>>, <<"general", "social+media">>},
        t \in CliTimeRanges :
       args = [Args(FilterNum, "none", FALSE) EXCEPT
                 !.http_method = m, !.categories = c, !.engines = <<"e1">>,
                 !.language = "en", !.safe_search = "moderate",
                 !.time_range = t]
  /\ main_DEBUG = FALSE
  /\ Fresh
  /\ query = "cats"
  /\ pageno = 1
  /\ start_at = 0
  /\ results = <<>>
  /\ pc = "args"
  /\ budget = MaxFetches

\* lines 934-949: --time-range is validated and brought to its long form
ValidateTimeRange ==
  /\ pc = "args"
  /\ IF args.time_range # Unset /\ args.time_range \notin
          (TIME_RANGE_OPTIONS \cup TIME_RANGE_SHORT_OPTIONS)
     THEN \* line 941: return
          /\ pc' = "exited" /\ exit_code' = 0
          /\ ev' = Ev("args", 0, -1, FALSE, <<>>, "invalid")
          /\ UNCHANGED args
     ELSE /\ args' = [args EXCEPT !.time_range =
                        IF args.time_range \in TIME_RANGE_SHORT_OPTIONS
                        THEN ShortToLong(args.time_range) ELSE args.time_range]
          /\ pc' = "fetch" /\ exit_code' = exit_code
          /\ ev' = Ev("args", 0, -1, FALSE, <<>>, "")
  /\ UNCHANGED <<query, pageno, start_at, results, phase>>
  /\ NoFetch

\* the runs that change the filters and the query from the prompt
NextFilters ==
  \/ ValidateTimeRange
  \/ \E n \in 0..MaxPageLen : SearchOk(n)
  \/ \E kind \in FailureKinds : SearchFail(kind)
  \/ LoopDone
  \/ CmdQuit
  \/ \E tok \in FilterTokens : CmdTimeRange(tok)
  \/ \E s \in Sites \cup {""} : CmdSite(s)
  \/ \E q \in Queries : CmdQuery(q)

SpecFilters == InitFilters /\ [][NextFilters]_vars

\* --num in the runs that count the backend calls of a phase
PhaseNums == {1, 2}

\* runs with room for one backend call more than the paging runs have
InitPhase ==
  /\ \E n \in PhaseNums : args = Args(n, "none", FALSE)
  /\ main_DEBUG = FALSE
  /\ Fresh
  /\ query = "cats"
  /\ pageno = 1
  /\ start_at = 0
  /\ results = <<>>
  /\ pc = "fetch"
  /\ budget = MaxFetches + 1

\* lines 1070-1086: the steps of the fetch loop
LoopStep ==
  \/ \E n \in 0..MaxPageLen : SearchOk(n)
  \/ \E kind \in FailureKinds : SearchFail(kind)
  \/ LoopDone

NextPhase ==
  \/ LoopStep
  \/ CmdNext
  \/ CmdQuit

\* the loop runs on: a call to the backend returns, and the statement after
\* it is executed
SpecPhase == InitPhase /\ [][NextPhase]_vars /\ WF_vars(LoopStep)

\* the records whose trailer is explored
Lengths ==
  {NoLength, StrLength("3:25"), IntLength(0), IntLength(125)}
    \cup {FloatLength(h) : h \in 0..MaxHalfSeconds}
TrailerRecords ==
  [category : {"videos", "music", "general"}, length : Lengths,
   author : {"", "Ada"}, publishedDate : {"", "2024-01-01"}]

\* a caller about to invoke print_results() on one such record
InitTrailer ==
  /\ args = Args(1, "none", FALSE)
  /\ main_DEBUG = FALSE
  /\ Fresh
  /\ query = "cats"
  /\ pageno = 1
  /\ start_at = 0
  /\ \E r \in TrailerRecords : results = <<r>>
  /\ pc = "trailer"
  /\ budget = MaxFetches

PrintTrailer ==
  /\ pc = "trailer"
  /\ pc' = "trailed"
  /\ ev' = Ev("print_results", 0, -1, TRUE, TrailerLines(results[1]), "trailer")
  /\ UNCHANGED <<args, query, pageno, start_at, results, exit_code, phase>>
  /\ NoFetch

NextTrailer == PrintTrailer

SpecTrailer == InitTrailer /\ [][NextTrailer]_vars

\* lines 676-686: the keys load_config reads with get_config_bool
BoolKeys == {"expand", "debug", "no_user_agent", "no_verify_ssl", "no_color"}
\* what the file can hold for a key
ConfigTexts == {"1", "yes", "true", "on", "True", "0", "no", "false", "off",
                "FALSE", "Maybe", ""}

\* a caller about to invoke get_config_bool(parser, key, default)
InitConfig ==
  /\ args = Args(RESULT_COUNT, "none", FALSE)
  /\ main_DEBUG = FALSE
  /\ DEBUG = FALSE
  /\ resp = NoResponse
  /\ dbgout = <<>>
  /\ req = NoRequest
  /\ exit_code = -1
  /\ nextId = 1
  /\ nfetch = 0
  /\ sent = <<>>
  /\ exhausted = FALSE
  /\ phase = NoPhase
  /\ mark = 1
  /\ ev = Ev("start", 0, -1, FALSE, <<>>, "")
  /\ query = "cats"
  /\ pageno = 1
  /\ start_at = 0
  /\ results = <<>>
  /\ pc = "config"
  /\ budget = MaxFetches
  /\ \E k \in BoolKeys, p \in BOOLEAN, t \in ConfigTexts, d \in BOOLEAN :
       /\ p \/ t = ""
       /\ conf = [key |-> k, present |-> p, text |-> t, default |-> d,
                  done |-> FALSE, result |-> FALSE]

GetConfigBool ==
  /\ pc = "config"
  /\ conf' = [conf EXCEPT !.done = TRUE,
                          !.result = get_config_bool(conf.present, conf.text,
                                                     conf.default)]
  /\ pc' = "configured"
  /\ ev' = Ev("get_config_bool", 0, -1, FALSE, <<>>, conf.key)
  /\ UNCHANGED <<args, query, pageno, start_at, results, exit_code, phase>>
  /\ dbgout' = <<>>
  /\ UNCHANGED <<nextId, nfetch, sent, exhausted, mark, DEBUG, main_DEBUG, req,
                 resp, budget>>

NextConfig == GetConfigBool

SpecConfig == InitConfig /\ [][NextConfig]_vars

NextRequest == SearchCall

NextResponse ==
  \E hr \in BOOLEAN, r \in ResultLists, hu \in BOOLEAN, u \in UnresponsiveLists :
    SearchRespond(Envelope(hr, r, hu, u))

SpecResponse == InitResponse /\ [][NextResponse]_vars

SpecRequest == InitRequest /\ [][NextRequest]_vars

NextRender == PrintResults

SpecRender == InitRender /\ [][NextRender]_vars

-----------------------------------------------------------------------------
(* Vocabulary of the properties *)

Ids(s) == [i \in 1..Len(s) |-> s[i].id]

IsPrefix(s, t) == Len(s) <= Len(t) /\ \A i \in 1..Len(s) : s[i] = t[i]

\* the step is a backend call
IsFetch == nfetch' = nfetch + 1

\* the step is an accepted new query, `t <range>` or `site:<value>`
IsReset == pc = "prompt" /\ ev'.op \in {"query", "t", "site"} /\ ev'.note # "invalid"

-----------------------------------------------------------------------------
(* C1 *)

C1_Step ==
  args.num > 0 =>
    \* a backend call is made only at the loop head, while the buffer does
    \* not exceed the window and the phase's last page was not empty
    /\ IsFetch => /\ pc = "fetch"
                  /\ Len(results) <= start_at + args.num
                  /\ (phase.n = 0 \/ phase.last > 0)
    \* while that holds, the only step the loop takes is a backend call
    /\ (pc = "fetch" /\ Len(results) <= start_at + args.num) => IsFetch
    \* a page of zero records ends the phase in the same step
    /\ (IsFetch /\ ev'.got = 0) => pc' # "fetch"
    \* a step of the loop that is no backend call ends the phase, and it is
    \* taken only after a call of this phase made the buffer exceed the window
    /\ (pc = "fetch" /\ ~IsFetch) => /\ pc' # "fetch"
                                     /\ phase.n >= 1
                                     /\ phase.last > 0
                                     /\ Len(results) > start_at + args.num
                                     /\ Len(results) - phase.last <= start_at + args.num

C1_Examples ==
  /\ (/\ args.num = 5 /\ phase.id = 1 /\ Len(sent) >= 2
      /\ sent[1].got = 3 /\ sent[2].got = 4)
       => Len(sent) = 2 /\ Len(results) = 7
  /\ (args.num > 0 /\ phase.id = 1 /\ Len(sent) >= 1 /\ sent[1].got = 0)
       => Len(sent) = 1 /\ pc # "fetch"

\* C1: with num = N > 0 a fetch phase keeps calling the backend while
\* len(results) <= start_at + N and the last page was not empty, and ends right
\* after the first call that makes len(results) > start_at + N or returns no
\* record; pages of 3 and 4 with N = 5 give 2 calls and 7 records, an empty
\* first page gives 1 call.
C1_FetchPhase == [][C1_Step]_vars /\ []C1_Examples

C1_Witness ==
  /\ args.num = 5 /\ phase.id = 1 /\ pc = "prompt"
  /\ Len(sent) = 2 /\ sent[1].got = 3 /\ sent[2].got = 4
  /\ Len(results) = 7

-----------------------------------------------------------------------------
(* C2 *)

\* C2: between two resets the k-th backend call requests page k.
C2_PagesInSequence == \A k \in 1..Len(sent) : sent[k].pageno = k

-----------------------------------------------------------------------------
(* C3 *)

\* C3: once a call has returned an empty page, no further backend call is
\* made until the next reset.
C3_NoFetchAfterEmptyPage ==
  \A k \in 1..Len(sent) : sent[k].got = 0 => k = Len(sent)

-----------------------------------------------------------------------------
(* C4 *)

\* C4: with num = 0 every query causes exactly one backend call, whatever
\* the page holds, and no command causes another one before the next reset.
C4_SinglePage ==
  args.num = 0 =>
    /\ Len(sent) <= 1
    /\ (pc = "fetch" => Len(sent) = 0)
    /\ (pc = "prompt" => Len(sent) = 1)

C4_Witness ==
  /\ args.num = 0 /\ pc = "prompt" /\ ev.op = "n"
  /\ mark > 1 /\ Len(sent) = 1 /\ Len(results) > 1

-----------------------------------------------------------------------------
(* C5 *)

-----------------------------------------------------------------------------
(* C6 *)

C6_Step ==
  /\ (pc = "prompt" /\ ev'.op = "n") =>
       /\ ~IsFetch
       /\ IF Len(results) < start_at' + args.num
          THEN /\ pc' = "fetch" /\ ~ev'.rendered
               /\ Len(results') <= start_at' + args.num
          ELSE /\ pc' = "prompt" /\ ev'.rendered
               /\ pageno' = pageno /\ Ids(results') = Ids(results)
               /\ Len(ev'.shown) = args.num
  /\ (pc = "fetch" /\ ev.op = "n") => IsFetch
  /\ (pc = "prompt" /\ ev'.op \in {"p", "f"}) =>
       /\ ~IsFetch /\ pc' = "prompt" /\ ev'.rendered
       /\ Ids(results') = Ids(results) /\ pageno' = pageno

-----------------------------------------------------------------------------
(* C7 *)

C7_Step ==
  IsReset => /\ results' = <<>> /\ start_at' = 0 /\ pageno' = 1
             /\ pc' = "fetch" /\ ~IsFetch

C7_State ==
  /\ (Len(sent) >= 1 => sent[1].pageno = 1)
  /\ \A i \in 1..Len(results) : results[i].id >= mark
  /\ (ev.rendered => \A j \in 1..Len(ev.shown) : ev.shown[j].id >= mark)

-----------------------------------------------------------------------------
(* C8 *)

C8_Step ==
  /\ ~IsReset => IsPrefix(Ids(results), Ids(results'))
  /\ (IsFetch /\ ev'.got >= 0) =>
       /\ Len(results') = Len(results) + ev'.got
       /\ \A i \in 1..ev'.got :
            LET r == results'[Len(results) + i]
                b == BackendPage(ev'.page, ev'.got)[i]
            IN r.id = nextId + i - 1 /\ r.url = b.url /\ r.engine = b.engine
  /\ ~IsFetch => Len(results') = Len(results) \/ IsReset

-----------------------------------------------------------------------------
(* C9 *)

C9_State ==
  /\ start_at >= 0
  /\ IF args.num = 0 THEN start_at = 0 ELSE start_at % args.num = 0

C9_Step ==
  IF pc = "prompt" /\ ev'.op = "n" THEN start_at' = start_at + args.num
  ELSE IF pc = "prompt" /\ ev'.op = "p"
       THEN start_at' = IF start_at = 0 THEN 0 ELSE start_at - args.num
  ELSE IF pc = "prompt" /\ ev'.op = "f" THEN start_at' = 0
  ELSE IF IsReset THEN start_at' = 0
  ELSE start_at' = start_at

-----------------------------------------------------------------------------
(* C10 *)

C10_Step ==
  /\ (IsFetch /\ ev'.note \in FailureKinds) =>
       /\ pc' = "exited" /\ exit_code' > 0
       /\ ~ev'.rendered /\ results' = results
  /\ pc # "exited"

\* C10: a backend call that ends in a connection failure, a timeout, a
\* non-2xx status or an undecodable body terminates the process with a
\* non-zero exit status; nothing happens after that: no retry, no further
\* call, no render, no prompt.
C10_FatalFetch ==
  [][C10_Step]_vars /\ [](pc = "exited" => (exit_code >= 0 /\ ~ENABLED Next))

C10_Witness ==
  /\ pc = "exited" /\ exit_code = 1 /\ ev.note = "JSONDecodeError"
  /\ Len(results) > 0 /\ nfetch = 2

-----------------------------------------------------------------------------
(* C11 *)

\* the ways the opener or the clipboard writer can fail
CollaboratorFailures == (OpenerOutcomes \cup ClipboardOutcomes) \ {"ok"}

\* C11: a failure of the URL opener or of the clipboard writer during a
\* bare-index or `c <index>` command never ends the interactive loop: the
\* program is at the prompt again afterwards.
C11_FailureKeepsLoop ==
  (ev.op \in {"open", "c"} /\ ev.note \in CollaboratorFailures) => pc = "prompt"

-----------------------------------------------------------------------------
(* C12 *)

\* the step handles a bare number, `c <index>` or `j <index>` outside
\* 1..len(results), or `t` with a token that is no time range
IsInvalidInput ==
  /\ pc = "prompt"
  /\ \/ ev'.op \in {"c", "t"} /\ ev'.note = "invalid"
     \/ ev'.op = "j" /\ ev'.shown = <<>>
     \/ /\ ev'.op = "query"
        /\ \E i \in 1..MaxIndex : query' = ToString(i) /\ i \notin 1..Len(results)

C12_Step ==
  IsInvalidInput =>
    /\ ~IsFetch
    /\ pc' = "prompt"
    /\ UNCHANGED <<query, args, results, start_at, pageno, sent>>

\* C12: a command with an invalid index or an invalid time-range token
\* issues no fetch, leaves the query, the filters, the buffer, the window
\* offset and the page counter unchanged, and the loop prompts again.
C12_InvalidInputKeepsState == [][C12_Step]_vars

-----------------------------------------------------------------------------
(* C13 *)

Filters(a) ==
  <<a.time_range, a.site, a.categories, a.engines, a.language, a.safe_search>>

\* the same dicts in the same order, with the fields no command may touch
SameRecords(s, t) ==
  /\ Len(s) = Len(t)
  /\ \A i \in 1..Len(s) :
       s[i].id = t[i].id /\ s[i].url = t[i].url /\ s[i].engine = t[i].engine

C13_Commands == {"?", "s", "d", "x", "empty", "open", "c", "j"}

C13_Step ==
  (pc = "prompt" /\ ev'.op \in C13_Commands) =>
    /\ ~IsFetch /\ pc' # "fetch" /\ sent' = sent /\ req' = req
    /\ query' = query
    /\ Filters(args') = Filters(args)
    /\ start_at' = start_at
    /\ pageno' = pageno
    /\ SameRecords(results, results')
    /\ ev'.op # "x" => (args' = args /\ results' = results /\ ~ev'.rendered)
    /\ ev'.op = "x" =>
         /\ args' = [args EXCEPT !.expand = ~args.expand]
         /\ ev'.rendered
         /\ Len(ev'.shown) =
              (IF Len(results) > start_at
               THEN Min(args.num, Len(results) - start_at) ELSE 0)
         /\ \A j \in 1..Len(ev'.shown) :
              /\ ev'.shown[j].i = start_at + j
              /\ ev'.shown[j].id = results[start_at + j].id
              /\ ev'.shown[j].url =
                   (IF args'.expand THEN results[start_at + j].url ELSE "")

-----------------------------------------------------------------------------
(* C14 *)

\* the dicts json() built for the backend calls logged in `log`, the first
\* of them with id `first`
RECURSIVE Returned(_, _)
Returned(log, first) ==
  IF log = <<>> THEN <<>>
  ELSE LET n == IF Head(log).got > 0 THEN Head(log).got ELSE 0
       IN Decode(BackendPage(Head(log).pageno, n), first)
            \o Returned(Tail(log), first + n)

\* C14: rendering never changes the buffer: the record `j <index>` prints
\* is equal, field for field, to a record the backend returned.
C14_JsonPrintsReturnedRecord ==
  (ev.op = "j" /\ ev.note = "json") =>
    \E k \in 1..Len(Returned(sent, mark)) :
      ev.shown[1] = Returned(sent, mark)[k]

-----------------------------------------------------------------------------
(* C15 *)

C15_Step ==
  (pc = "render" /\ ev.rendered /\ ev'.rendered /\ args' = args) =>
    ev'.shown = ev.shown

\* C15: with the same expand flag, rendering a record a second time prints
\* exactly what the first time printed, also for a record whose `engines`
\* list names the primary engine more than once.
C15_RenderIdempotent == [][C15_Step]_vars

-----------------------------------------------------------------------------
(* C16 *)

\* C16: with num = 0 the display shows every record of the page the backend
\* returned, not an empty window.
C16_ZeroShowsWholePage ==
  (args.num = 0 /\ ev.rendered) => Len(ev.shown) = Len(results)

-----------------------------------------------------------------------------
(* C17 *)

\* C17: the flag that --debug sets and `d` toggles is the flag search()
\* consults: a backend call prints its debug lines exactly when that flag
\* is on.
C17_DebugFlagConsulted ==
  ev.op = "search" => (dbgout # <<>> <=> main_DEBUG)

-----------------------------------------------------------------------------
(* Vocabulary of the request properties *)

\* the parameter names of a request, and the value sent under a name
Keys(r) == {r.params[i].key : i \in 1..Len(r.params)}
Value(r, k) == r.params[CHOOSE i \in 1..Len(r.params) : r.params[i].key = k].value

-----------------------------------------------------------------------------
(* C18 *)

-----------------------------------------------------------------------------
(* C19 *)

\* C19: a search called with both a category list and an engine list sends
\* both: the request has the comma-joined engines under `engines` next to
\* the categories.
C19_BothSent ==
  (pc = "called" /\ args.categories # <<>> /\ args.engines # <<>>) =>
    /\ "categories" \in Keys(req)
    /\ "engines" \in Keys(req)
    /\ Value(req, "engines") = Join(",", args.engines)

-----------------------------------------------------------------------------
(* C20 *)

\* C20: by GET and by POST the request carries q and format=json; each of
\* categories, language, safesearch and time_range is sent exactly when the
\* field is set and non-empty, pageno exactly when the page number exceeds
\* 1, and no parameter is sent with an empty value.
C20_RequestParameters ==
  pc = "called" =>
    /\ "q" \in Keys(req)
    /\ "format" \in Keys(req) /\ Value(req, "format") = "json"
    /\ "categories" \in Keys(req) <=> args.categories # <<>>
    /\ "language" \in Keys(req) <=> args.language # ""
    /\ "safesearch" \in Keys(req) <=> args.safe_search # ""
    /\ "time_range" \in Keys(req) <=> args.time_range # <<>>
    /\ "pageno" \in Keys(req) <=> pageno > 1
    /\ \A i \in 1..Len(req.params) : req.params[i].value # ""

-----------------------------------------------------------------------------
(* C21 *)

\* C21: by GET as well as by POST, a category list that contains
\* `social+media` is sent with `social media` in its place.
C21_SocialMediaTranslated ==
  (pc = "called" /\ "categories" \in Keys(req)) =>
    Value(req, "categories") \in {"general", "general,social media"}

-----------------------------------------------------------------------------
(* C22 *)

\* C22: for every decoded response search() returns a list and never None:
\* the `results` array of the envelope, in its order, when the key is
\* there, and the empty list when it is not.
C22_ReturnsSequence ==
  pc = "returned" =>
    /\ ~resp.ret.is_none
    /\ "results" \in DOMAIN resp.data => resp.ret.value = resp.data["results"]
    /\ "results" \notin DOMAIN resp.data => resp.ret.value = <<>>

C22_Witness ==
  /\ pc = "returned"
  /\ "results" \notin DOMAIN resp.data
  /\ "unresponsive_engines" \in DOMAIN resp.data
  /\ resp.ret = List(<<>>)

-----------------------------------------------------------------------------
(* C23 *)

\* C23: when the envelope has `unresponsive_engines`, search() prints one
\* warning for each distinct [engine, error] pair and no other (twice
\* [e1, timeout] and once [e2, err] give 2 warnings), does not end the
\* process, and returns the `results` of the envelope as they are.
C23_UnresponsiveWarnings ==
  (pc = "returned" /\ "unresponsive_engines" \in DOMAIN resp.data) =>
    LET pairs == resp.data["unresponsive_engines"]
    IN /\ DOMAIN resp.warnings = {pairs[i] : i \in 1..Len(pairs)}
       /\ \A p \in DOMAIN resp.warnings : resp.warnings[p] = 1
       /\ pairs = <<<<"e1", "timeout">>, <<"e1", "timeout">>, <<"e2", "err">>>>
            => Cardinality(DOMAIN resp.warnings) = 2
       /\ exit_code = -1
       /\ "results" \in DOMAIN resp.data => resp.ret.value = resp.data["results"]

C23_Witness ==
  /\ pc = "returned"
  /\ "results" \in DOMAIN resp.data /\ Len(resp.data["results"]) = 2
  /\ "unresponsive_engines" \in DOMAIN resp.data
  /\ resp.data["unresponsive_engines"] =
       <<<<"e1", "timeout">>, <<"e1", "timeout">>, <<"e2", "err">>>>
  /\ Cardinality(DOMAIN resp.warnings) = 2

-----------------------------------------------------------------------------
(* C28 *)

\* C28: get_config_bool returns the boolean written in the file when the key
\* is present and its text reads as a boolean, and the default when the key
\* is absent or the text is no boolean, whatever the default is.
C28_ConfigBool ==
  conf.done =>
    conf.result =
      (IF conf.present /\ Lower(conf.text) \in TrueTexts THEN TRUE
       ELSE IF conf.present /\ Lower(conf.text) \in FalseTexts THEN FALSE
       ELSE conf.default)

-----------------------------------------------------------------------------
(* C25 *)

\* C25: for a videos record whose length is a float L >= 0 of seconds, the
\* length of the trailer line is MM:SS with MM = floor(L / 60) and
\* SS = floor(L) mod 60, each padded to two digits (125.0 gives 02:05,
\* 122.0 gives 02:02).
C25_LengthTrailer ==
  (pc = "trailed" /\ results[1].category = "videos"
     /\ results[1].length.kind = "float") =>
    LET h == results[1].length.h
        MM == h \div 120
        SS == (h \div 2) % 60
    IN ev.shown = <<Pad2(MM) \o ":" \o Pad2(SS) \o " " \o results[1].author>>

-----------------------------------------------------------------------------
(* C26 *)

\* C26: a music record prints the same length/author trailer line as a
\* videos record with the same author and length, with or without a
\* published date.
C26_MusicAsVideos ==
  (pc = "trailed" /\ results[1].category = "music") =>
    ev.shown = TrailerLines([results[1] EXCEPT !.category = "videos"])

-----------------------------------------------------------------------------
(* C27 *)

\* C27: a --json run has one fetch phase, for the initial query; it never
\* renders a window and never reaches the prompt; when the phase ends it
\* exits with status 0 having printed the whole buffer, every record the
\* backend returned in the order fetched, not only the display window.
C27_JsonDump ==
  args.json =>
    /\ pc # "prompt"
    /\ ~ev.rendered
    /\ phase.id = 1 /\ mark = 1 /\ query = "cats"
    /\ (pc = "exited" /\ exit_code = 0) =>
         /\ ev.note = "json"
         /\ ev.shown = results
         /\ results = Returned(sent, 1)
    /\ (pc = "exited" /\ exit_code # 0) => ev.shown = <<>>

C27_Witness ==
  /\ args.json /\ args.num > 0
  /\ pc = "exited" /\ exit_code = 0
  /\ nfetch = 2
  /\ Len(ev.shown) > args.num + 1
  /\ ev.shown = Returned(sent, 1)

-----------------------------------------------------------------------------
(* C24 *)

\* the long form the claim gives each token
LongForm(t) ==
  IF t = <<"d">> THEN Str_day ELSE IF t = <<"w">> THEN Str_week
  ELSE IF t = <<"m">> THEN Str_month ELSE IF t = <<"y">> THEN Str_year
  ELSE t

C24_Step ==
  \* from the command line
  /\ (pc = "args" /\ pc' = "fetch") =>
       args'.time_range = LongForm(args.time_range)
  \* from the `t` command
  /\ \A tok \in FilterTokens :
       (CmdTimeRange(tok) /\ ev'.note # "invalid") =>
         args'.time_range = LongForm(tok)
  \* a value that was normalized is a long form or unset, which a second
  \* normalization leaves alone (a run refused at line 941 sends nothing)
  /\ (pc' # "args" /\ ~(ev'.op = "args" /\ ev'.note = "invalid")) =>
       /\ args'.time_range \in TIME_RANGE_OPTIONS \cup {Unset}
       /\ (IF args'.time_range \in TIME_RANGE_SHORT_OPTIONS
           THEN ShortToLong(args'.time_range) ELSE args'.time_range)
            = args'.time_range
  \* what a backend call sends
  /\ IsFetch =>
       /\ ("time_range" \in Keys(req')) = (args.time_range # Unset)
       /\ "time_range" \in Keys(req') =>
            /\ Value(req', "time_range") = Text(args.time_range)
            /\ Value(req', "time_range") \in {"day", "week", "month", "year"}

\* C24: d, w, m, y given on the command line or to the `t` command become
\* day, week, month, year; a long form is kept as it is, so that a
\* normalized value does not change when normalized again; and every
\* request carries either no time range or one of day, week, month, year.
C24_TimeRangeNormalized == [][C24_Step]_vars

\* `t d` was typed in a run started with --time-range m (or month), whose
\* request carried time_range=month
C24_Witness ==
  /\ ev.op = "t" /\ ev.note # "invalid"
  /\ args.time_range = Str_day
  /\ "time_range" \in Keys(req) /\ Value(req, "time_range") = "month"

-----------------------------------------------------------------------------
(* C30 *)

C30_Step ==
  pc = "prompt" =>
    /\ args'.categories = args.categories
    /\ args'.engines = args.engines
    /\ args'.language = args.language
    /\ args'.safe_search = args.safe_search
    /\ args'.http_method = args.http_method
    /\ ev'.op = "t" => (query' = query /\ args'.site = args.site)
    /\ ev'.op = "site" => (query' = query /\ args'.time_range = args.time_range)
    /\ ev'.op = "query" =>
         (args'.site = args.site /\ args'.time_range = args.time_range)
    /\ \A tok \in FilterTokens :
         (CmdTimeRange(tok) /\ ev'.note # "invalid") =>
           args'.time_range = LongForm(tok)
    /\ \A s \in Sites \cup {""} : CmdSite(s) => args'.site = s
    /\ \A q \in Queries : CmdQuery(q) => query' = q

\* C30: `t <range>` changes the time range and keeps the query and the site
\* filter; `site:<value>` changes the site filter and keeps the query and
\* the time range; a new query changes the query and keeps both filters;
\* no command of the prompt changes the categories, the engines, the
\* language, the safe-search level or the transport method.
C30_OwnFieldOnly == [][C30_Step]_vars

\* `site:example.com` typed after a new query, in a run with a time range
\* and categories set
C30_Witness ==
  /\ ev.op = "site" /\ args.site = "example.com"
  /\ query = "dogs"
  /\ args.time_range = Str_week
  /\ args.categories # <<>>
  /\ args.http_method = "POST"

-----------------------------------------------------------------------------
(* C29 *)

\* the records the last k calls of the log returned
RECURSIVE GotInLast(_, _)
GotInLast(log, k) ==
  IF k = 0 \/ log = <<>> THEN 0
  ELSE (IF log[Len(log)].got > 0 THEN log[Len(log)].got ELSE 0)
       + GotInLast(SubSeq(log, 1, Len(log) - 1), k - 1)

\* the length of the buffer when the current phase was entered
EntryLen == Len(results) - GotInLast(sent, phase.n)

\* max(0, S + N + 1 - L) for the current phase
FetchBound ==
  IF start_at + args.num + 1 - EntryLen > 0
  THEN start_at + args.num + 1 - EntryLen ELSE 0

\* the phase is running, or its last step has just been taken
InPhase == pc = "fetch" \/ (ev.op \in {"search", "show"} /\ exit_code \in {-1, 0})

C29_Bound == (args.num > 0 /\ InPhase) => phase.n <= FetchBound

\* C29: with num = N > 0, a phase entered with L buffered records and
\* window offset S makes at most max(0, S + N + 1 - L) backend calls, and,
\* each call returning, the phase ends (here: whenever the calls the bound
\* allows are within the calls explored).
C29_PhaseTerminates ==
  /\ []C29_Bound
  /\ (pc = "fetch" /\ nfetch + FetchBound - phase.n <= budget) ~> (pc # "fetch")

\* a phase that made as many calls as the bound allows
C29_Witness ==
  /\ args.num = 1 /\ FetchBound = 2
  /\ phase.n = 2 /\ pc = "prompt"
  /\ ev.op = "search" /\ Len(results) = 1

====
